---- MODULE Spec2Model ----
(***************************************************************************)
(* A model of discord/ui/view.py (View, ViewStore) and of the selection    *)
(* state of discord/ui/select.py (Select).                                 *)
(*                                                                         *)
(* Time is the reading of time.monotonic(), an integer here.  Every method *)
(* of View and ViewStore is synchronous, so each is one atomic action that *)
(* reads the clock once.  Python's None is the integer NoneV.  An          *)
(* exception leaves the assignments made before it in place and is         *)
(* recorded in last.err.                                                   *)
(*                                                                         *)
(* The specifications share the actions.  Spec: the store and the views'   *)
(* item lists at one instant.  SpecTime: the clock, the timers and         *)
(* ViewStore.dispatch over views with declared items.  SpecLife: stop, the *)
(* timers and the callers of View.wait.  SpecSynced: add_view and          *)
(* remove_view with message ids.  SpecTask: View._scheduled_task step by   *)
(* step, between its awaits.  SpecTaskFair: the same with the clock, under *)
(* the event loop's fairness.  SpecRefresh: View.refresh and               *)
(* ViewStore.update_from_message.  SpecCapacity: the limits of 25 children *)
(* and 25 options.  SpecLayout: View.to_components.  SpecRouting: the      *)
(* store beside remove_item, clear_items and refresh of a registered view. *)
(***************************************************************************)
EXTENDS Integers, Sequences, FiniteSets, TLC

\* ------------------------------------------------------------- bounds
MaxTime == 2
MaxTimeout == 2
MaxChildren == 2
MaxTimers == 2
MaxTasks == 1
MaxEvents == 2
MaxComponents == 2
MaxFree == 2
MaxLayout == 7

\* ---------------------------------------------------------- constants
\* Python's None, where the code holds a number or None
NoneV == -1
\* ComponentType, by the names of its members
ActionRow == "action_row"
Button == "button"
Select == "select"
\* the limit of View.add_item and of View.__init_subclass__
MaxItemsPerView == 25
\* the limit of Select.append_option
MaxOptionsPerSelect == 25
\* the length of a row of View.to_components
RowSize == 5
\* sys.maxsize, the key of an item without group in View.to_components; here
\* the largest integer of the checker, above every group_id
maxsize == 2147483647

ViewIds == {1, 2}
MessageIds == {1, 2}
WaiterIds == {1, 2}
CustomIds == {"a", "b"}

\* The Item objects of the process.  Item 1 is a Button and item 2 a Select
\* with the same custom_id, item 3 is a second Button with the key of item 1,
\* item 4 is a plain Item.
ItemIds == 1..4

\* The Item objects that View.refresh builds: _component_to_item gives a
\* Button with the custom_id of a button component and a plain Item for any
\* other component.  The object Synth(s, c) is the s-th of class c, where
\* class c is the Button of key SynthKeys[c] and the last class the plain Item.
SynthKeys == <<<<Button, "a">>>>

PlainClass == Len(SynthKeys) + 1

Synth(s, c) == Cardinality(ItemIds) + (s - 1) * PlainClass + c

SynthIds == {Synth(s, c) : s \in 1..MaxComponents, c \in 1..PlainClass}

ClassOf(i) == ((i - Cardinality(ItemIds) - 1) % PlainClass) + 1

SynthButton(i) == i \in SynthIds /\ ClassOf(i) # PlainClass

ItemType(i) ==
    CASE i \in {1, 3} -> Button
      [] i = 2 -> Select
      [] SynthButton(i) -> Button
      [] OTHER -> ActionRow

ItemCustomId(i) ==
    IF i \in {1, 2, 3} THEN "a"
    ELSE IF SynthButton(i) THEN SynthKeys[ClassOf(i)][2]
    ELSE ""

\* The Item objects of the views built with many items: Declared(n, g) is
\* the n-th item of such a view, a plain Item whose group_id is Groups[g].
Groups == <<NoneV, 1, 2>>

DeclaredBase == Cardinality(ItemIds \cup SynthIds)

Declared(n, g) == DeclaredBase + (n - 1) * Len(Groups) + g

\* Item.group_id; the items of ItemIds and those refresh builds have None
group_id(i) ==
    IF i > DeclaredBase
    THEN Groups[((i - DeclaredBase - 1) % Len(Groups)) + 1]
    ELSE NoneV

\* n items without group
Ungrouped(n) == [k \in 1..n |-> Declared(k, 1)]

is_dispatchable(i) == ItemType(i) \in {Button, Select}

KeyOf(i) == <<ItemType(i), ItemCustomId(i)>>

\* the Select objects
SelectIds == {i \in ItemIds : ItemType(i) = Select}

Keys == {Button, Select} \X CustomIds

\* interaction.data: with or without a 'values' entry
Interactions == {[has_values |-> FALSE, values |-> <<>>],
                 [has_values |-> TRUE, values |-> <<"x">>]}

\* View.timeout: None, the falsy 0, or a positive duration
Timeouts == {NoneV, 0, MaxTimeout}

VARIABLES
    now,              \* time.monotonic()
    timeout,          \* View.timeout
    children,         \* View.children
    stopped,          \* View._stopped, the future
    cancel_callback,  \* View._cancel_callback is set
    timeout_handler,  \* View._timeout_handler: NoneV, a timer id, 0 once spent
    timers,           \* the event loop's pending call_later timers
    on_timeout_tasks, \* tasks created for View.on_timeout
    views,            \* ViewStore._views
    synced,           \* ViewStore._synced_message_views, in insertion order
    selected,         \* Select._selected_values
    underlying,       \* Select._underlying: the options of the component
    tasks,            \* tasks created by View.dispatch and not yet run
    waiting,          \* the callers of View.wait: the view and what they got
    last              \* the operation that ran last and how it ended

vars == <<now, timeout, children, stopped, cancel_callback, timeout_handler,
          timers, on_timeout_tasks, views, synced, selected, underlying, tasks,
          waiting, last>>

NoEntry == [view |-> 0, item |-> 0, expiry |-> NoneV]

Pending == [done |-> FALSE, result |-> FALSE]

NoKey == <<"", "">>

\* last: the operation, the view it acted on (0: none), the key it was given,
\* another argument or the value returned, and the exception raised
OpKey(op, v, key, err) ==
    [op |-> op, view |-> v, key |-> key, arg |-> <<>>, err |-> err]

Op(op, v, err) == OpKey(op, v, NoKey, err)

OpArg(op, v, arg, err) ==
    [op |-> op, view |-> v, key |-> NoKey, arg |-> arg, err |-> err]

\* the state after the construction of the views and of the store, but for
\* View.children and the options of the Selects
Built ==
    /\ now = 0
    /\ timeout \in [ViewIds -> Timeouts]
    /\ stopped = [v \in ViewIds |-> Pending]
    /\ cancel_callback = [v \in ViewIds |-> FALSE]
    /\ timeout_handler = [v \in ViewIds |-> NoneV]
    /\ timers = {}
    /\ on_timeout_tasks = [v \in ViewIds |-> 0]
    /\ views = [k \in Keys |-> NoEntry]
    /\ synced = <<>>
    /\ selected = [i \in ItemIds \cup SynthIds |-> <<>>]
    /\ tasks = <<>>
    /\ waiting = [w \in WaiterIds |-> [view |-> 0, got |-> "idle"]]
    /\ last = Op("init", 0, "none")

\* n options
Options(n) == [k \in 1..n |-> "o"]

\* the Selects are built without options
Constructed ==
    /\ Built
    /\ underlying = [i \in SelectIds |-> Options(0)]

\* views of a class that declares no item; view 2 is built with timeout=None
Init ==
    /\ Constructed
    /\ timeout[2] = NoneV
    /\ children = [v \in ViewIds |-> <<>>]

\* views of classes that declare items: view 1 a Button and a Select, view 2
\* a Button with the custom_id of view 1's and a plain Item; view 1 is built
\* with a number as its timeout, view 2 with None or a positive number
InitDeclared ==
    /\ Constructed
    /\ timeout[1] # NoneV
    /\ timeout[2] # 0
    /\ children = [v \in ViewIds |-> IF v = 1 THEN <<1, 2>> ELSE <<3, 4>>]

\* ------------------------------------------------------------- View

\* View._expires_at at clock reading t
expires_at(v, t) ==
    IF timeout[v] # NoneV /\ timeout[v] # 0 THEN t + timeout[v] ELSE NoneV

\* The state of the form, read off the future
State(v) ==
    IF ~stopped[v].done THEN "Active"
    ELSE IF stopped[v].result THEN "TimedOut" ELSE "Stopped"

\* ------------------------------------------------------------- ViewStore

\* __verify_integrity with now > expiry: an entry lives through the instant
\* of its expiry
verify_integrity_late(vs, t) ==
    [k \in Keys |->
        IF vs[k] # NoEntry /\ vs[k].expiry # NoneV /\ t > vs[k].expiry
        THEN NoEntry ELSE vs[k]]

\* ViewStore.__verify_integrity at clock reading t
verify_integrity(vs, t) ==
    [k \in Keys |->
        IF vs[k] # NoEntry /\ vs[k].expiry # NoneV /\ t >= vs[k].expiry
        THEN NoEntry ELSE vs[k]]

\* SetEntries with dict.setdefault in place of the assignment: a key that is
\* present keeps its entry
RECURSIVE SetEntriesKeep(_, _, _, _)
SetEntriesKeep(vs, v, ch, expiry) ==
    IF ch = <<>> THEN vs
    ELSE LET i == Head(ch)
             vs1 == IF is_dispatchable(i) /\ vs[KeyOf(i)] = NoEntry
                    THEN [vs EXCEPT ![KeyOf(i)] =
                             [view |-> v, item |-> i, expiry |-> expiry]]
                    ELSE vs
         IN  SetEntriesKeep(vs1, v, Tail(ch), expiry)

\* the loop of add_view over view.children
RECURSIVE SetEntries(_, _, _, _)
SetEntries(vs, v, ch, expiry) ==
    IF ch = <<>> THEN vs
    ELSE LET i == Head(ch)
             vs1 == IF is_dispatchable(i)
                    THEN [vs EXCEPT ![KeyOf(i)] =
                             [view |-> v, item |-> i, expiry |-> expiry]]
                    ELSE vs
         IN  SetEntries(vs1, v, Tail(ch), expiry)

\* self._synced_message_views[message_id] = view
SetSynced(sy, m, v) ==
    IF \E n \in 1..Len(sy) : sy[n].msg = m
    THEN [n \in 1..Len(sy) |-> IF sy[n].msg = m THEN [msg |-> m, view |-> v] ELSE sy[n]]
    ELSE Append(sy, [msg |-> m, view |-> v])

NewTimerId == CHOOSE n \in 1..MaxTimers : \A t \in timers : t.id # n

\* View._start_listening
start_listening(v) ==
    /\ cancel_callback' = [cancel_callback EXCEPT ![v] = TRUE]
    /\ IF timeout[v] # NoneV /\ timeout[v] # 0
       THEN /\ Cardinality(timers) < MaxTimers
            /\ timers' = timers \cup
                   {[id |-> NewTimerId, view |-> v, when |-> now + timeout[v]]}
            /\ timeout_handler' = [timeout_handler EXCEPT ![v] = NewTimerId]
       ELSE UNCHANGED <<timers, timeout_handler>>

\* ViewStore.add_view
add_view(v, m) ==
    /\ start_listening(v)
    /\ views' = SetEntries(verify_integrity(views, now), v, children[v],
                           expires_at(v, now))
    /\ synced' = IF m # NoneV THEN SetSynced(synced, m, v) ELSE synced
    /\ last' = Op("add_view", v, "none")
    /\ UNCHANGED <<underlying, now, timeout, children, stopped, on_timeout_tasks,
                   selected, tasks, waiting>>

\* the first loop of remove_view: dict.pop(key) raises KeyError on an absent key
RECURSIVE PopEntries(_, _)
PopEntries(vs, ch) ==
    IF ch = <<>> THEN [views |-> vs, err |-> "none"]
    ELSE LET i == Head(ch) IN
         IF ~is_dispatchable(i) THEN PopEntries(vs, Tail(ch))
         ELSE IF vs[KeyOf(i)] = NoEntry THEN [views |-> vs, err |-> "KeyError"]
         ELSE PopEntries([vs EXCEPT ![KeyOf(i)] = NoEntry], Tail(ch))

\* the second loop of remove_view: the first association of the view, in
\* dict order, is deleted and the loop ends
RECURSIVE DelFirstSynced(_, _)
DelFirstSynced(sy, v) ==
    IF sy = <<>> THEN <<>>
    ELSE IF Head(sy).view = v THEN Tail(sy)
    ELSE <<Head(sy)>> \o DelFirstSynced(Tail(sy), v)

\* ViewStore.remove_view as a function of the two maps
RemoveViewResult(vs, sy, v, ch) ==
    LET r == PopEntries(vs, ch) IN
    IF r.err # "none" THEN [views |-> r.views, synced |-> sy, err |-> r.err]
    ELSE [views |-> r.views, synced |-> DelFirstSynced(sy, v), err |-> "none"]

\* ViewStore.remove_view
remove_view(v) ==
    LET r == RemoveViewResult(views, synced, v, children[v]) IN
    /\ views' = r.views
    /\ synced' = r.synced
    /\ last' = Op("remove_view", v, r.err)
    /\ UNCHANGED <<underlying, now, timeout, children, stopped, cancel_callback,
                   timeout_handler, timers, on_timeout_tasks, selected, tasks,
                   waiting>>

\* asyncio.Future.set_result: InvalidStateError on a future that is done
SetResult(fut, value) ==
    IF fut.done THEN [fut |-> fut, err |-> "InvalidStateError"]
    ELSE [fut |-> [done |-> TRUE, result |-> value], err |-> "none"]

\* stop resolving the future with True
StopResultTrue(fut) == SetResult(fut, TRUE)

\* self._stopped.set_result(False) of View.stop
StopResult(fut) == SetResult(fut, FALSE)

\* self._stopped.set_result(True) of View.dispatch_timeout
TimeoutResult(fut) == SetResult(fut, TRUE)

\* TimerHandle.cancel on the handle h: the timer leaves the loop
CancelTimer(ts, h) == {t \in ts : t.id # h}

\* a handle whose timer has run or was cancelled
Spend(handlers, id) ==
    [v \in ViewIds |-> IF handlers[v] = id THEN 0 ELSE handlers[v]]

\* View.stop
stop(v) ==
    LET s == StopResult(stopped[v])
        r == IF cancel_callback[v]
             THEN RemoveViewResult(views, synced, v, children[v])
             ELSE [views |-> views, synced |-> synced, err |-> "none"]
    IN
    IF s.err # "none"
    THEN /\ last' = Op("stop", v, s.err)
         /\ UNCHANGED <<underlying, now, timeout, children, stopped, cancel_callback,
                        timeout_handler, timers, on_timeout_tasks, views,
                        synced, selected, tasks, waiting>>
    ELSE /\ stopped' = [stopped EXCEPT ![v] = s.fut]
         /\ IF timeout_handler[v] # NoneV
            THEN /\ timers' = CancelTimer(timers, timeout_handler[v])
                 /\ timeout_handler' = Spend(timeout_handler, timeout_handler[v])
            ELSE UNCHANGED <<timers, timeout_handler>>
         /\ views' = r.views
         /\ synced' = r.synced
         /\ last' = Op("stop", v, r.err)
         /\ UNCHANGED <<underlying, now, timeout, children, cancel_callback,
                        on_timeout_tasks, selected, tasks, waiting>>

\* View.dispatch_timeout, called by the loop for the timer t once it is due
dispatch_timeout(t) ==
    LET v == t.view
        s == TimeoutResult(stopped[v])
    IN
    /\ now >= t.when
    /\ timers' = timers \ {t}
    /\ timeout_handler' = Spend(timeout_handler, t.id)
    /\ stopped' = [stopped EXCEPT ![v] = s.fut]
    /\ on_timeout_tasks' =
           IF s.err = "none"
           THEN [on_timeout_tasks EXCEPT ![v] = @ + 1]
           ELSE on_timeout_tasks
    /\ last' = Op("dispatch_timeout", v, s.err)
    /\ UNCHANGED <<underlying, now, timeout, children, cancel_callback, views, synced,
                   selected, tasks, waiting>>

\* the event loop runs a timer that is due
run_timer == \E t \in timers : dispatch_timeout(t)

\* refresh_state that keeps the selection when the data holds no 'values'
select_refresh_state_keep(sel, i, interaction) ==
    [sel EXCEPT ![i] = IF interaction.has_values THEN interaction.values ELSE @]

\* Select.refresh_state: data.get('values', [])
select_refresh_state(sel, i, interaction) ==
    [sel EXCEPT ![i] = IF interaction.has_values THEN interaction.values ELSE <<>>]

\* refreshState of an element of another kind: the selection state is
\* overwritten from the payload of the event
element_refresh_state(sel, i, interaction) ==
    [sel EXCEPT ![i] = IF interaction.has_values THEN interaction.values ELSE <<>>]

\* dispatch without the call of item.refresh_state
refresh_state_skipped(sel, i, interaction) == sel

\* item.refresh_state(interaction)
refresh_state(sel, i, interaction) ==
    IF ItemType(i) = Select
    THEN select_refresh_state(sel, i, interaction)
    ELSE element_refresh_state(sel, i, interaction)

\* the task asyncio.create_task returns for _scheduled_task(state, item,
\* interaction): pc is the await the coroutine has not passed yet, check the
\* outcome of interaction_check, calls the calls of item.callback, responded
\* interaction.response._responded, acks the calls of interaction.response.defer
\* and err the exception the task ended with
Created(v, i, interaction) ==
    [view |-> v, item |-> i, interaction |-> interaction, pc |-> "check",
     check |-> "none", calls |-> 0, responded |-> FALSE, acks |-> 0,
     err |-> "none"]

\* View.dispatch that creates no task
view_dispatch_drop(ts, v, i, interaction) == ts

\* View.dispatch: one task per call
view_dispatch(ts, v, i, interaction) == Append(ts, Created(v, i, interaction))

\* the entry as add_view stored it: the expiry is not renewed
KeepExpiry(value, t) == value

\* self._views[key] = (view, item, view._expires_at)
RenewExpiry(value, t) ==
    [view |-> value.view, item |-> value.item, expiry |-> expires_at(value.view, t)]

\* ViewStore.dispatch
dispatch(component_type, custom_id, interaction) ==
    LET key == <<component_type, custom_id>>
        vs == verify_integrity(views, now)
        value == vs[key]
    IN
    IF value = NoEntry
    THEN /\ views' = vs
         /\ last' = OpKey("dispatch", 0, key, "none")
         /\ UNCHANGED <<underlying, now, timeout, children, stopped, cancel_callback,
                        timeout_handler, timers, on_timeout_tasks, synced,
                        selected, tasks, waiting>>
    ELSE /\ views' = [vs EXCEPT ![key] = RenewExpiry(value, now)]
         /\ selected' = refresh_state(selected, value.item, interaction)
         /\ tasks' = view_dispatch(tasks, value.view, value.item, interaction)
         /\ last' = OpKey("dispatch", value.view, key, "none")
         /\ UNCHANGED <<underlying, now, timeout, children, stopped, cancel_callback,
                        timeout_handler, timers, on_timeout_tasks, synced,
                        waiting>>

\* the event loop runs one task created by View.dispatch
run_task(n) ==
    /\ n \in 1..Len(tasks)
    /\ tasks' = SubSeq(tasks, 1, n - 1) \o SubSeq(tasks, n + 1, Len(tasks))
    /\ last' = Op("run_task", tasks[n].view, "none")
    /\ UNCHANGED <<underlying, now, timeout, children, stopped, cancel_callback,
                   timeout_handler, timers, on_timeout_tasks, views, synced,
                   selected, waiting>>

\* the outcomes of View.interaction_check, which a subclass overrides: it
\* returns True or False, or raises an Exception, or raises a BaseException
\* that is no Exception (asyncio.CancelledError, SystemExit)
CheckOutcomes == {"true", "false", "Exception", "BaseException"}

\* the try statement of _scheduled_task with allow = True in its handler
CheckResultOpen(outcome) ==
    IF outcome = "BaseException"
    THEN [allow |-> FALSE, err |-> outcome]
    ELSE [allow |-> outcome # "false", err |-> "none"]

\* the try statement of _scheduled_task: allow, and the exception that
\* except Exception does not catch
CheckResult(outcome) ==
    IF outcome = "BaseException"
    THEN [allow |-> FALSE, err |-> outcome]
    ELSE [allow |-> outcome = "true", err |-> "none"]

\* _scheduled_task from its start to the return of interaction_check: the
\* task ends if allow is false, and item.callback is called if it is true
task_check(n, outcome) ==
    LET r == CheckResult(outcome) IN
    /\ n \in 1..Len(tasks)
    /\ tasks[n].pc = "check"
    /\ tasks' = [tasks EXCEPT ![n] =
           IF r.allow
           THEN [@ EXCEPT !.check = outcome, !.pc = "callback", !.calls = @ + 1]
           ELSE [@ EXCEPT !.check = outcome, !.pc = "done", !.err = r.err]]
    /\ last' = Op("interaction_check", tasks[n].view, r.err)
    /\ UNCHANGED <<underlying, now, timeout, children, stopped, cancel_callback,
                   timeout_handler, timers, on_timeout_tasks, views, synced,
                   selected, waiting>>

\* defer whatever the handler did
NeedsDeferAlways(responded) == TRUE

\* if not interaction.response._responded
NeedsDefer(responded) == ~responded

\* _scheduled_task from the call of item.callback to its end: the handler
\* has or has not responded to the interaction, and it returns or raises;
\* when it returns, interaction.response.defer is called if nothing responded
task_callback(n, responds, raises) ==
    /\ n \in 1..Len(tasks)
    /\ tasks[n].pc = "callback"
    /\ tasks' = [tasks EXCEPT ![n] =
           IF raises
           THEN [@ EXCEPT !.responded = responds, !.pc = "done",
                          !.err = "Exception"]
           ELSE IF NeedsDefer(responds)
           THEN [@ EXCEPT !.responded = responds, !.pc = "defer",
                          !.acks = @ + 1]
           ELSE [@ EXCEPT !.responded = responds, !.pc = "done"]]
    /\ last' = Op("callback", tasks[n].view, IF raises THEN "Exception" ELSE "none")
    /\ UNCHANGED <<underlying, now, timeout, children, stopped, cancel_callback,
                   timeout_handler, timers, on_timeout_tasks, views, synced,
                   selected, waiting>>

\* _scheduled_task from the return of interaction.response.defer
task_defer(n) ==
    /\ n \in 1..Len(tasks)
    /\ tasks[n].pc = "defer"
    /\ tasks' = [tasks EXCEPT ![n] = [@ EXCEPT !.pc = "done"]]
    /\ last' = Op("defer", tasks[n].view, "none")
    /\ UNCHANGED <<underlying, now, timeout, children, stopped, cancel_callback,
                   timeout_handler, timers, on_timeout_tasks, views, synced,
                   selected, waiting>>

InChildren(i) == \E v \in ViewIds : \E n \in 1..Len(children[v]) : children[v][n] = i

\* View.add_item
add_item(v, i) ==
    /\ IF Len(children[v]) > MaxItemsPerView
       THEN /\ last' = Op("add_item", v, "ValueError")
            /\ UNCHANGED children
       ELSE /\ children' = [children EXCEPT ![v] = Append(@, i)]
            /\ last' = Op("add_item", v, "none")
    /\ UNCHANGED <<underlying, now, timeout, stopped, cancel_callback, timeout_handler,
                   timers, on_timeout_tasks, views, synced, selected, tasks,
                   waiting>>

\* list.remove: the first occurrence
RECURSIVE ListRemove(_, _)
ListRemove(ch, i) ==
    IF ch = <<>> THEN <<>>
    ELSE IF Head(ch) = i THEN Tail(ch)
    ELSE <<Head(ch)>> \o ListRemove(Tail(ch), i)

\* remove_item that also deletes the entry of the item's key from the store
remove_item_and_unregister(v, i) ==
    /\ children' = [children EXCEPT ![v] = ListRemove(@, i)]
    /\ views' = [k \in Keys |->
                     IF views[k].view = v /\ views[k].item = i
                     THEN NoEntry ELSE views[k]]
    /\ last' = Op("remove_item", v, "none")
    /\ UNCHANGED <<underlying, now, timeout, stopped, cancel_callback, timeout_handler,
                   timers, on_timeout_tasks, synced, selected, tasks,
                   waiting>>

\* View.remove_item
remove_item(v, i) ==
    /\ children' = [children EXCEPT ![v] = ListRemove(@, i)]
    /\ last' = Op("remove_item", v, "none")
    /\ UNCHANGED <<underlying, now, timeout, stopped, cancel_callback, timeout_handler,
                   timers, on_timeout_tasks, views, synced, selected, tasks,
                   waiting>>

\* View.clear_items
clear_items(v) ==
    /\ children' = [children EXCEPT ![v] = <<>>]
    /\ last' = Op("clear_items", v, "none")
    /\ UNCHANGED <<underlying, now, timeout, stopped, cancel_callback, timeout_handler,
                   timers, on_timeout_tasks, views, synced, selected, tasks,
                   waiting>>

\* View.__init_subclass__ of a class with n decorated members
init_subclass(n) ==
    /\ last' = OpArg("init_subclass", 0, <<n>>,
                     IF n > MaxItemsPerView THEN "TypeError" ELSE "none")
    /\ UNCHANGED <<underlying, now, timeout, children, stopped, cancel_callback,
                   timeout_handler, timers, on_timeout_tasks, views, synced,
                   selected, tasks, waiting>>

\* Select.append_option as a function of the options
AppendOption(options, option) ==
    IF Len(options) > MaxOptionsPerSelect
    THEN [options |-> options, err |-> "ValueError"]
    ELSE [options |-> Append(options, option), err |-> "none"]

\* Select.append_option
append_option(i, option) ==
    LET r == AppendOption(underlying[i], option) IN
    /\ underlying' = [underlying EXCEPT ![i] = r.options]
    /\ last' = OpArg("append_option", 0, <<i>>, r.err)
    /\ UNCHANGED <<now, timeout, children, stopped, cancel_callback,
                   timeout_handler, timers, on_timeout_tasks, views, synced,
                   selected, tasks, waiting>>

\* Select.add_option: the SelectOption of the value, then append_option
add_option(i, value) ==
    LET r == AppendOption(underlying[i], value) IN
    /\ underlying' = [underlying EXCEPT ![i] = r.options]
    /\ last' = OpArg("add_option", 0, <<i>>, r.err)
    /\ UNCHANGED <<now, timeout, children, stopped, cancel_callback,
                   timeout_handler, timers, on_timeout_tasks, views, synced,
                   selected, tasks, waiting>>

\* key(item) with None sorting first
key_none_first(item) == group_id(item)

\* key(item) of View.to_components
group_key(item) == IF group_id(item) = NoneV THEN maxsize ELSE group_id(item)

\* sorted(self.children, key=key): a stable sort
RECURSIVE sorted(_)
sorted(ch) ==
    IF ch = <<>> THEN <<>>
    ELSE LET s == sorted(SubSeq(ch, 1, Len(ch) - 1))
             item == ch[Len(ch)]
             p == Cardinality({n \in 1..Len(s) : group_key(s[n]) <= group_key(item)})
         IN  SubSeq(s, 1, p) \o <<item>> \o SubSeq(s, p + 1, Len(s))

\* groupby(children, key=key): the runs of equal keys
RECURSIVE groupby(_)
groupby(s) ==
    IF s = <<>> THEN <<>>
    ELSE LET differ == {n \in 1..Len(s) : group_key(s[n]) # group_key(s[1])}
             n == IF differ = {} THEN Len(s)
                  ELSE (CHOOSE m \in differ : \A h \in differ : m <= h) - 1
         IN  <<SubSeq(s, 1, n)>> \o groupby(SubSeq(s, n + 1, Len(s)))

\* the rows of one group: the group if it holds at most RowSize items, else
\* group[index : index + RowSize] for index in range(0, len(group), RowSize)
RowsOf(group) ==
    IF Len(group) <= RowSize THEN <<group>>
    ELSE [j \in 1..((Len(group) + RowSize - 1) \div RowSize) |->
             SubSeq(group, (j - 1) * RowSize + 1,
                    IF j * RowSize < Len(group) THEN j * RowSize ELSE Len(group))]

RECURSIVE RowsOfAll(_)
RowsOfAll(groups) ==
    IF groups = <<>> THEN <<>>
    ELSE RowsOf(Head(groups)) \o RowsOfAll(Tail(groups))

\* View.to_components: the rows, each the items whose dicts it holds
to_components(v) ==
    /\ last' = OpArg("to_components", v, RowsOfAll(groupby(sorted(children[v]))),
                     "none")
    /\ UNCHANGED <<underlying, now, timeout, children, stopped, cancel_callback,
                   timeout_handler, timers, on_timeout_tasks, views, synced,
                   selected, tasks, waiting>>

\* a component: a Button or a SelectMenu with its custom_id, the SelectMenu
\* with its options, or an ActionRow with its children
Leaf(type, custom_id, options) ==
    [type |-> type, custom_id |-> custom_id, options |-> options,
     children |-> <<>>]

Row(cs) ==
    [type |-> ActionRow, custom_id |-> "", options |-> <<>>, children |-> cs]

Leaves == {Leaf(Button, "a", <<>>), Leaf(Select, "a", <<"o">>)}

SeqsUpTo(S, n) == UNION {[1..m -> S] : m \in 0..n}

\* _walk_all_components
RECURSIVE walk_all_components(_)
walk_all_components(components) ==
    IF components = <<>> THEN <<>>
    ELSE LET item == Head(components) IN
         (IF item.type = ActionRow THEN item.children ELSE <<item>>)
             \o walk_all_components(Tail(components))

\* the lists of components given to View.refresh; an action row holds at
\* least one child
ComponentLists ==
    {cs \in SeqsUpTo(Leaves \cup {Row(r) : r \in SeqsUpTo(Leaves, MaxComponents)
                                                  \ {<<>>}},
                     MaxComponents) :
        Len(walk_all_components(cs)) <= MaxComponents}

\* a lookup that finds no item
old_state_none(ch) == [k \in Keys |-> 0]

\* old_state of View.refresh: the dispatchable children by their keys, the
\* last child of a key; 0 where a lookup raises KeyError
old_state(ch) ==
    [k \in Keys |->
        LET ns == {n \in 1..Len(ch) : is_dispatchable(ch[n]) /\ KeyOf(ch[n]) = k}
        IN  IF ns = {} THEN 0 ELSE ch[CHOOSE n \in ns : \A m \in ns : m <= n]]

\* the Item objects that some list, entry or task refers to
InUse ==
    {i \in ItemIds \cup SynthIds :
        \/ \E v \in ViewIds : \E n \in 1..Len(children[v]) : children[v][n] = i
        \/ \E k \in Keys : views[k].item = i
        \/ \E n \in 1..Len(tasks) : tasks[n].item = i}

\* _component_to_item: a new object, none of used; 0 if the model has no
\* object left
component_to_item(component, used) ==
    LET c == IF component.type = Button
             THEN CHOOSE n \in 1..Len(SynthKeys) :
                      SynthKeys[n] = <<Button, component.custom_id>>
             ELSE PlainClass
        free == {n \in 1..MaxComponents : Synth(n, c) \notin used}
    IN  IF free = {} THEN 0
        ELSE Synth(CHOOSE n \in free : \A m \in free : n <= m, c)

\* the loop of View.refresh over the walked components, with old_state made
\* of the list ch: the new children
RECURSIVE Rebuild(_, _, _, _)
Rebuild(cs, ch, acc, used) ==
    IF cs = <<>> THEN acc
    ELSE LET component == Head(cs)
             key == <<component.type, component.custom_id>>
             older == IF key \in Keys THEN old_state(ch)[key] ELSE 0
             item == IF older # 0 THEN older
                     ELSE component_to_item(component, used)
         IN  Rebuild(Tail(cs), ch, Append(acc, item), used \cup {item})

\* the loop of View.refresh over the walked components: older.refresh_component,
\* which for a Select is self._underlying = component
RECURSIVE RefreshComponents(_, _, _)
RefreshComponents(cs, ch, und) ==
    IF cs = <<>> THEN und
    ELSE LET component == Head(cs)
             key == <<component.type, component.custom_id>>
             older == IF key \in Keys THEN old_state(ch)[key] ELSE 0
         IN  RefreshComponents(Tail(cs), ch,
                 IF older \in SelectIds
                 THEN [und EXCEPT ![older] = component.options]
                 ELSE und)

\* View.refresh that registers the new children in the store
refresh_and_register(v, components) ==
    \E walked \in {walk_all_components(components)} :
    \E new \in {Rebuild(walked, children[v], <<>>, InUse)} :
    /\ \A n \in 1..Len(new) : new[n] # 0
    /\ children' = [children EXCEPT ![v] = new]
    /\ underlying' = RefreshComponents(walked, children[v], underlying)
    /\ views' = SetEntries(views, v, new, expires_at(v, now))
    /\ last' = OpArg("refresh", v, components, "none")
    /\ UNCHANGED <<now, timeout, stopped, cancel_callback, timeout_handler,
                   timers, on_timeout_tasks, synced, selected, tasks,
                   waiting>>

\* View.refresh
refresh(v, components) ==
    \E walked \in {walk_all_components(components)} :
    \E new \in {Rebuild(walked, children[v], <<>>, InUse)} :
    /\ \A n \in 1..Len(new) : new[n] # 0
    /\ children' = [children EXCEPT ![v] = new]
    /\ underlying' = RefreshComponents(walked, children[v], underlying)
    /\ last' = OpArg("refresh", v, components, "none")
    /\ UNCHANGED <<now, timeout, stopped, cancel_callback, timeout_handler,
                   timers, on_timeout_tasks, views, synced, selected, tasks,
                   waiting>>

\* a component payload: the dict of a component, an action row with the
\* payloads of its children under 'components'
Payload(component) ==
    [type |-> component.type, custom_id |-> component.custom_id,
     options |-> component.options,
     components |-> [n \in 1..Len(component.children) |->
                        [type |-> component.children[n].type,
                         custom_id |-> component.children[n].custom_id,
                         options |-> component.children[n].options,
                         components |-> <<>>]]]

\* the lists of payloads given to update_from_message
PayloadLists ==
    {[n \in 1..Len(cs) |-> Payload(cs[n])] : cs \in ComponentLists}

\* _component_factory: the component of a payload
component_factory(d) ==
    IF d.type = ActionRow
    THEN Row([n \in 1..Len(d.components) |->
                 Leaf(d.components[n].type, d.components[n].custom_id,
                      d.components[n].options)])
    ELSE Leaf(d.type, d.custom_id, d.options)

\* self._synced_message_views[message_id]: the view, 0 for KeyError
SyncedView(sy, m) ==
    IF \E n \in 1..Len(sy) : sy[n].msg = m
    THEN sy[CHOOSE n \in 1..Len(sy) : sy[n].msg = m].view
    ELSE 0

\* ViewStore.update_from_message
update_from_message(message_id, components) ==
    LET view == SyncedView(synced, message_id)
        decoded == [n \in 1..Len(components) |-> component_factory(components[n])]
    IN
    IF view = 0
    THEN /\ last' = Op("update_from_message", 0, "KeyError")
         /\ UNCHANGED <<underlying, now, timeout, children, stopped,
                        cancel_callback, timeout_handler, timers,
                        on_timeout_tasks, views, synced, selected, tasks,
                        waiting>>
    ELSE /\ refresh(view, decoded)

\* View.wait up to its await: the caller w is suspended on the future of v
wait_begin(v, w) ==
    /\ waiting[w].got = "idle"
    /\ waiting' = [waiting EXCEPT ![w] = [view |-> v, got |-> "waiting"]]
    /\ last' = Op("wait", v, "none")
    /\ UNCHANGED <<underlying, now, timeout, children, stopped, cancel_callback,
                   timeout_handler, timers, on_timeout_tasks, views, synced,
                   selected, tasks>>

\* View.wait from its await: the future is done and its result is returned
wait_return(w) ==
    /\ waiting[w].got = "waiting"
    /\ stopped[waiting[w].view].done
    /\ waiting' = [waiting EXCEPT ![w].got =
                       IF stopped[waiting[w].view].result THEN "true" ELSE "false"]
    /\ last' = Op("wait", waiting[w].view, "none")
    /\ UNCHANGED <<underlying, now, timeout, children, stopped, cancel_callback,
                   timeout_handler, timers, on_timeout_tasks, views, synced,
                   selected, tasks>>

Tick ==
    /\ now < MaxTime
    /\ now' = now + 1
    /\ last' = Op("tick", 0, "none")
    /\ UNCHANGED <<underlying, timeout, children, stopped, cancel_callback,
                   timeout_handler, timers, on_timeout_tasks, views, synced, selected, tasks,
                   waiting>>

\* the store and the views' items, at one instant
Next ==
    \/ \E v \in ViewIds : add_view(v, NoneV)
    \/ \E v \in ViewIds : remove_view(v)
    \/ \E v \in ViewIds : stop(v)
    \/ \E v \in ViewIds, i \in ItemIds :
           ~InChildren(i) /\ Len(children[v]) < MaxChildren /\ add_item(v, i)
    \/ \E v \in ViewIds, i \in ItemIds : remove_item(v, i)
    \/ \E v \in ViewIds : clear_items(v)

Spec == Init /\ [][Next]_vars

\* a dispatch to key k creates no task, or fewer than n tasks were created
Room(k, n) == verify_integrity(views, now)[k] # NoEntry => Len(tasks) < n

\* the store, the clock, the timers and the dispatch of interactions; a view
\* is added to the store once
NextTime ==
    \/ Tick
    \/ \E v \in ViewIds : ~cancel_callback[v] /\ add_view(v, NoneV)
    \/ \E v \in ViewIds : stop(v)
    \/ run_timer
    \/ \E k \in Keys, x \in Interactions :
           Room(k, MaxTasks) /\ dispatch(k[1], k[2], x)
    \/ \E n \in 1..MaxTasks : run_task(n)

SpecTime == InitDeclared /\ [][NextTime]_vars

\* the life of the views: their timers, stop and the callers of wait
NextLife ==
    \/ Tick
    \/ \E v \in ViewIds : add_view(v, NoneV)
    \/ \E v \in ViewIds : stop(v)
    \/ run_timer
    \/ \E v \in ViewIds, w \in WaiterIds : wait_begin(v, w)
    \/ \E w \in WaiterIds : wait_return(w)

SpecLife == InitDeclared /\ [][NextLife]_vars

\* the store and the messages its views are synced with
NextSynced ==
    \/ \E v \in ViewIds, m \in MessageIds \cup {NoneV} : add_view(v, m)
    \/ \E v \in ViewIds : remove_view(v)
    \/ \E v \in ViewIds : stop(v)

SpecSynced == InitDeclared /\ [][NextSynced]_vars

\* view 1 is built with a timeout, view 2 with timeout=None
InitTask ==
    /\ Constructed
    /\ timeout = [v \in ViewIds |-> IF v = 1 THEN MaxTimeout ELSE NoneV]
    /\ children = [v \in ViewIds |-> IF v = 1 THEN <<1, 2>> ELSE <<3, 4>>]

\* the tasks of _scheduled_task of view 1, step by step, beside the
\* dispatches that create them and stop; a task that has ended stays in tasks
NextTask ==
    \/ ~cancel_callback[1] /\ add_view(1, NoneV)
    \/ stop(1)
    \/ \E k \in Keys, x \in Interactions :
           Room(k, MaxEvents) /\ dispatch(k[1], k[2], x)
    \/ \E n \in 1..MaxEvents, o \in CheckOutcomes : task_check(n, o)
    \/ \E n \in 1..MaxEvents, responds \in BOOLEAN, raises \in BOOLEAN :
           task_callback(n, responds, raises)
    \/ \E n \in 1..MaxEvents : task_defer(n)

SpecTask == InitTask /\ [][NextTask]_vars

\* the tasks of view 1 beside the clock and the timer of the view
NextTaskFair ==
    \/ Tick
    \/ ~cancel_callback[1] /\ add_view(1, NoneV)
    \/ stop(1)
    \/ run_timer
    \/ \E k \in Keys, x \in Interactions :
           Room(k, MaxTasks) /\ dispatch(k[1], k[2], x)
    \/ \E n \in 1..MaxTasks, o \in CheckOutcomes : task_check(n, o)
    \/ \E n \in 1..MaxTasks, responds \in BOOLEAN, raises \in BOOLEAN :
           task_callback(n, responds, raises)
    \/ \E n \in 1..MaxTasks : task_defer(n)

\* the event loop runs every task that is ready: a task created by
\* asyncio.create_task is started, and interaction_check ends
TaskFairness ==
    \A n \in 1..MaxTasks : WF_vars(\E o \in CheckOutcomes : task_check(n, o))

SpecTaskFair == InitTask /\ [][NextTaskFair]_vars /\ TaskFairness

\* View.refresh and update_from_message on view 1, which was added to the
\* store as it was built, with or without a message, or was not added
NextRefresh ==
    \/ \E m \in MessageIds \cup {NoneV} : last.op = "init" /\ add_view(1, m)
    \/ \E cs \in ComponentLists : refresh(1, cs)
    \/ \E m \in MessageIds, ps \in PayloadLists : update_from_message(m, ps)

SpecRefresh == InitTask /\ [][NextRefresh]_vars

\* view 1 is built from a class with up to MaxItemsPerView decorated
\* members and the Select with up to MaxOptionsPerSelect options
InitCapacity ==
    /\ Built
    /\ \E n \in (MaxOptionsPerSelect - MaxFree)..MaxOptionsPerSelect :
           underlying = [i \in SelectIds |-> Options(n)]
    /\ timeout = [v \in ViewIds |-> NoneV]
    /\ \E n \in (MaxItemsPerView - MaxFree)..MaxItemsPerView :
           children = [v \in ViewIds |-> IF v = 1 THEN Ungrouped(n) ELSE <<>>]

\* the limits of View and of Select
NextCapacity ==
    \/ \E n \in {MaxItemsPerView, MaxItemsPerView + 1} : init_subclass(n)
    \/ \E i \in ItemIds : ~InChildren(i) /\ add_item(1, i)
    \/ \E i \in SelectIds, o \in {"x", "y"} : append_option(i, o)
    \/ \E i \in SelectIds, o \in {"x", "y"} : add_option(i, o)

SpecCapacity == InitCapacity /\ [][NextCapacity]_vars

\* view 1 is built without items, view 2 with two full rows of items and two
\* more, all without group
InitLayout ==
    /\ Constructed
    /\ timeout = [v \in ViewIds |-> NoneV]
    /\ children = [v \in ViewIds |->
                      IF v = 1 THEN <<>> ELSE Ungrouped(RowSize + RowSize + 2)]

\* the layout of views whose items are in any groups, in any order
NextLayout ==
    \/ \E g \in 1..Len(Groups) :
           /\ Len(children[1]) < MaxLayout
           /\ add_item(1, Declared(Len(children[1]) + 1, g))
    \/ \E v \in ViewIds : to_components(v)

SpecLayout == InitLayout /\ [][NextLayout]_vars

\* view 1 is added to the store once, as it was built, and may be refreshed
\* right then; its items are then removed, beside the dispatches
NextRouting ==
    \/ ~cancel_callback[1] /\ add_view(1, NoneV)
    \/ \E i \in ItemIds : remove_item(1, i)
    \/ clear_items(1)
    \/ \E cs \in ComponentLists : last.op = "add_view" /\ refresh(1, cs)
    \/ \E k \in Keys, x \in Interactions :
           Room(k, MaxTasks) /\ dispatch(k[1], k[2], x)

SpecRouting == InitTask /\ [][NextRouting]_vars

\* ------------------------------------------------------------- claims

\* the positions of view v's dispatchable children
Dispatchables(v) == {n \in 1..Len(children[v]) : is_dispatchable(children[v][n])}

\* an entry that __verify_integrity keeps at the current clock reading
Live(k) ==
    /\ views[k] # NoEntry
    /\ views[k].expiry = NoneV \/ now < views[k].expiry

\* C1: add_view of a view with a dispatchable child whose key is live in the
\* store for another view fails with a collision error and, the sweep of
\* expired entries apart, leaves the entries, the synced messages and the
\* view's timer as they were.
C1_CollisionFails ==
    [][\A v \in ViewIds :
        (/\ last'.op = "add_view"
         /\ last'.view = v
         /\ \E n \in Dispatchables(v) :
                Live(KeyOf(children[v][n])) /\ views[KeyOf(children[v][n])].view # v)
        => (/\ last'.err = "collision"
            /\ views' = verify_integrity(views, now)
            /\ synced' = synced
            /\ timers' = timers
            /\ timeout_handler' = timeout_handler)]_vars

\* every dispatchable child of v has its key in the store, with v and that
\* child as the entry's view and item
Registered(v) ==
    \A n \in Dispatchables(v) :
        /\ views[KeyOf(children[v][n])].view = v
        /\ views[KeyOf(children[v][n])].item = children[v][n]

\* C2, as claimed: an Active view that is registered with a dispatchable child
\* stays registered through every step that leaves it Active and is not its
\* own remove_view.
C2_RegistrationKept ==
    [][\A v \in ViewIds :
        (/\ cancel_callback[v]
         /\ Dispatchables(v) # {}
         /\ Registered(v)
         /\ ~stopped'[v].done
         /\ ~(last'.op = "remove_view" /\ last'.view = v))
        => (Registered(v))']_vars

\* the last child of the list ch with key k
LastWithKey(ch, k) ==
    LET ns == {n \in 1..Len(ch) : is_dispatchable(ch[n]) /\ KeyOf(ch[n]) = k}
    IN  ch[CHOOSE n \in ns : \A m \in ns : m <= n]

\* C2, amended: when add_view(v) returns, the key of every dispatchable child
\* of v is in the store with v as the entry's view and, as its item, the last
\* child of v with that key.
C2_AddViewRegisters ==
    \A v \in ViewIds :
        (last.op = "add_view" /\ last.view = v)
        => \A n \in Dispatchables(v) :
              LET k == KeyOf(children[v][n]) IN
              /\ views[k].view = v
              /\ views[k].item = LastWithKey(children[v], k)

\* add_view has just registered a view whose two Buttons share their key
C2_Witness ==
    /\ last.op = "add_view"
    /\ last.view = 2
    /\ children[2] = <<1, 3>>
    /\ views[KeyOf(1)].view = 2
    /\ views[KeyOf(1)].item = 3

\* an entry that is absent, or whose stored expiry is not after the clock
Dead(k) ==
    \/ views[k] = NoEntry
    \/ views[k].expiry # NoneV /\ views[k].expiry <= now

\* C3: a dispatch to a key without a live entry raises nothing, creates no
\* task and changes no selection; in the store it removes the entries whose
\* expiry is not after the clock, and nothing else changes.
C3_DeadKeyDrop ==
    [][\A k \in Keys :
        (last'.op = "dispatch" /\ last'.key = k /\ Dead(k))
        => (/\ last'.err = "none"
            /\ last'.view = 0
            /\ tasks' = tasks
            /\ selected' = selected
            /\ views' = [j \in Keys |-> IF Dead(j) THEN NoEntry ELSE views[j]]
            /\ synced' = synced
            /\ stopped' = stopped
            /\ timers' = timers)]_vars

\* a dispatch has just missed while view 1, registered with its two keys and
\* never stopped, has lost both entries to the sweep
C3_Witness ==
    /\ last.op = "dispatch"
    /\ last.view = 0
    /\ last.key = KeyOf(1)
    /\ cancel_callback[1]
    /\ ~stopped[1].done
    /\ timeout[1] = MaxTimeout
    /\ now >= MaxTimeout
    /\ \A k \in Keys : views[k] = NoEntry

C5_TimeoutFromLastHit ==
    [][\A v \in ViewIds :
        (/\ last'.op = "dispatch_timeout"
         /\ last'.view = v
         /\ last'.err = "none"
         /\ \A t \in timers' : t.view # v)
        => \A k \in Keys :
              (views[k].view = v /\ views[k].expiry # NoneV)
              => views[k].expiry <= now]_vars

\* C10: no dispatch is routed to a view that has timed out: once the view's
\* timer has fired, and no other timer of the view is pending, the store holds
\* no entry of the view that a dispatch can hit.
C10_TimedOutNotRouted ==
    \A v \in ViewIds :
        (stopped[v].done /\ stopped[v].result /\ \A t \in timers : t.view # v)
        => /\ ~(last.op = "dispatch" /\ last.view = v)
           /\ \A k \in Keys : views[k].view = v => Dead(k)

\* C6: a view leaves Active only by stop, to Stopped, or by its timer, to
\* TimedOut; a future that is done never changes; a caller of wait returns
\* only once the future is done, and one that has returned holds the result
\* of the future.
C6_Lifecycle ==
    [][/\ \A v \in ViewIds :
            /\ stopped[v].done => stopped'[v] = stopped[v]
            /\ (~stopped[v].done /\ stopped'[v].done)
               => \/ last'.op = "stop" /\ last'.view = v /\ ~stopped'[v].result
                  \/ /\ last'.op = "dispatch_timeout" /\ last'.view = v
                     /\ stopped'[v].result
       /\ \A w \in WaiterIds :
            /\ waiting'[w].got \in {"true", "false"}
               => /\ stopped'[waiting'[w].view].done
                  /\ (waiting'[w].got = "true") = stopped'[waiting'[w].view].result
            /\ (waiting[w].got = "waiting" /\ waiting'[w].got # "waiting")
               => stopped[waiting[w].view].done]_vars

\* both callers of wait have returned from a view that timed out, and a
\* later stop of the view has raised
C6_Witness ==
    /\ \A w \in WaiterIds : waiting[w] = [view |-> 1, got |-> "true"]
    /\ State(1) = "TimedOut"
    /\ last = Op("stop", 1, "InvalidStateError")

\* C7: when stop or remove_view has returned for a view, no entry of the
\* store refers to the view.
C7_TeardownRemovesAll ==
    \A v \in ViewIds :
        (last.op \in {"stop", "remove_view"} /\ last.view = v /\ last.err = "none")
        => \A k \in Keys : views[k].view # v

\* C8: a second remove_view right after the first raises nothing and leaves
\* the entries and the synced messages as the first left them.
C8_IdempotentTeardown ==
    [][\A v \in ViewIds :
        (/\ last.op = "remove_view"
         /\ last.view = v
         /\ last.err = "none"
         /\ last'.op = "remove_view"
         /\ last'.view = v)
        => (last'.err = "none" /\ views' = views /\ synced' = synced)]_vars

\* C9: when remove_view has returned for a view, no message is synced with
\* the view.
C9_NoSyncedAfterRemove ==
    \A v \in ViewIds :
        (last.op = "remove_view" /\ last.view = v /\ last.err = "none")
        => \A n \in 1..Len(synced) : synced[n].view # v

\* C11: when stop has returned for a view, no timer of the view is pending,
\* whatever add_view calls came before: no timer of the view fires after stop.
C11_StopCancelsTimers ==
    \A v \in ViewIds :
        (last.op = "stop" /\ last.view = v /\ last.err = "none")
        => \A t \in timers : t.view # v

\* C12, as claimed: a task whose interaction_check returned false or raised
\* has not called the handler, has issued no acknowledgement and has ended
\* without an exception; the handler is called only after the check
\* returned true.
C12_FailsClosed ==
    \A n \in 1..Len(tasks) :
        /\ tasks[n].check \in {"false", "Exception", "BaseException"}
           => /\ tasks[n].calls = 0
              /\ tasks[n].acks = 0
              /\ tasks[n].pc = "done"
              /\ tasks[n].err = "none"
        /\ tasks[n].calls > 0 => tasks[n].check = "true"

\* C12, amended: a task whose interaction_check returned false or raised has
\* not called the handler and has issued no acknowledgement, and the handler
\* is called only after the check returned true; the task ends without an
\* exception if the check returned false or raised an Exception, and with
\* the exception of the check if that is a BaseException that is no
\* Exception.
C12_FailsClosedOnException ==
    \A n \in 1..Len(tasks) :
        /\ tasks[n].check \in {"false", "Exception", "BaseException"}
           => /\ tasks[n].calls = 0
              /\ tasks[n].acks = 0
              /\ tasks[n].pc = "done"
              /\ tasks[n].err =
                     IF tasks[n].check = "BaseException" THEN "BaseException"
                     ELSE "none"
        /\ tasks[n].calls > 0 => tasks[n].check = "true"

\* the check of one task has raised an Exception and the check of another
\* has returned false: both tasks have ended
C12_Witness ==
    /\ Len(tasks) = MaxEvents
    /\ \E n \in 1..Len(tasks) : tasks[n].check = "Exception" /\ tasks[n].pc = "done"
    /\ \E n \in 1..Len(tasks) : tasks[n].check = "false" /\ tasks[n].pc = "done"

\* C13: a task issues at most one acknowledgement, and none before its
\* handler has returned; once the check has passed and the handler has
\* returned, it has issued one if the handler left the interaction
\* unresponded and none if the handler responded.
C13_DefaultAck ==
    \A n \in 1..Len(tasks) :
        /\ tasks[n].acks <= 1
        /\ tasks[n].acks = 1
           => /\ tasks[n].calls = 1
              /\ tasks[n].pc \in {"defer", "done"}
              /\ tasks[n].err = "none"
        /\ (tasks[n].calls = 1 /\ tasks[n].pc # "callback" /\ tasks[n].err = "none")
           => tasks[n].acks = IF tasks[n].responded THEN 0 ELSE 1

\* two handlers have returned: one had responded and its task issued no
\* acknowledgement, the other had not and its task issued one
C13_Witness ==
    /\ \E n \in 1..Len(tasks) :
           /\ tasks[n].pc = "done" /\ tasks[n].calls = 1 /\ tasks[n].err = "none"
           /\ tasks[n].responded /\ tasks[n].acks = 0
    /\ \E n \in 1..Len(tasks) :
           /\ tasks[n].pc = "done" /\ tasks[n].calls = 1 /\ tasks[n].err = "none"
           /\ ~tasks[n].responded /\ tasks[n].acks = 1

\* C14: a dispatch that hits creates one task for the view, the item and
\* the interaction, and no other step creates, removes or redirects a task;
\* the handler of a task is called at most once; and every task created
\* comes to the end of its check, with the handler called if and only if the
\* check returned true, whatever stop, the timer and the sweep do meanwhile.
C14_SingleDelivery ==
    /\ [][/\ (last'.op = "dispatch" /\ last'.view # 0)
             => \E x \in Interactions :
                   tasks' = Append(tasks, Created(last'.view,
                                                  views[last'.key].item, x))
          /\ ~(last'.op = "dispatch" /\ last'.view # 0)
             => /\ Len(tasks') = Len(tasks)
                /\ \A n \in 1..Len(tasks) :
                      /\ tasks'[n].view = tasks[n].view
                      /\ tasks'[n].item = tasks[n].item
                      /\ tasks'[n].interaction = tasks[n].interaction
                      /\ tasks'[n].calls >= tasks[n].calls
                      /\ tasks'[n].calls <= 1
          /\ last'.op \in {"stop", "dispatch_timeout", "tick", "add_view"}
             => tasks' = tasks]_vars
    /\ \A n \in 1..MaxTasks :
          (Len(tasks) >= n)
          ~> (/\ Len(tasks) >= n
              /\ tasks[n].pc # "check"
              /\ tasks[n].calls = IF tasks[n].check = "true" THEN 1 ELSE 0)

\* the handler of a task was called after the view of the task had timed
\* out and the entry that routed the interaction had left the store
C14_Witness ==
    /\ last.op = "interaction_check"
    /\ Len(tasks) >= 1
    /\ tasks[1].view = 1
    /\ tasks[1].calls = 1
    /\ State(1) = "TimedOut"
    /\ views[KeyOf(tasks[1].item)] = NoEntry

\* the selection an interaction carries
Carried(interaction) ==
    IF interaction.has_values THEN interaction.values ELSE <<>>

\* C20: the selection of an item that dispatches have hit is the payload of
\* the interaction of the last of them, whatever the tasks of the hits have
\* done; an item that no dispatch hit has its first selection; and
\* refresh_state applied twice with one interaction gives what it gives
\* applied once.
C20_LastWriteWins ==
    /\ \A i \in ItemIds :
          LET hits == {n \in 1..Len(tasks) : tasks[n].item = i} IN
          selected[i] =
              IF hits = {} THEN <<>>
              ELSE Carried(tasks[CHOOSE n \in hits : \A m \in hits : m <= n].interaction)
    /\ \A i \in ItemIds, x \in Interactions :
          refresh_state(refresh_state(selected, i, x), i, x)
              = refresh_state(selected, i, x)

\* the Select was hit with values and then without: its selection is empty
\* while the task of the first hit has run its handler and the task of the
\* second has not started
C20_Witness ==
    /\ Len(tasks) = MaxEvents
    /\ tasks[1].item = tasks[Len(tasks)].item
    /\ ItemType(tasks[1].item) = Select
    /\ tasks[1].interaction.has_values
    /\ tasks[1].calls = 1
    /\ ~tasks[Len(tasks)].interaction.has_values
    /\ tasks[Len(tasks)].pc = "check"
    /\ selected[tasks[1].item] = <<>>

\* the components of a list with each action row replaced by its children
RECURSIVE Flattened(_)
Flattened(cs) ==
    IF cs = <<>> THEN <<>>
    ELSE LET c == cs[Len(cs)] IN
         Flattened(SubSeq(cs, 1, Len(cs) - 1))
             \o (IF c.children # <<>> THEN c.children ELSE <<c>>)

\* C15: refresh makes the children one item per component of the flattened
\* list, in its order.  Where the view had a dispatchable child of the
\* component's key, the item is such a child, with its selection kept and,
\* for a Select, the options of the last component of its key; elsewhere it
\* is an object that nothing referred to, and no other position holds it.
\* A child of the old list is in the new one only if it is dispatchable and
\* its key is in the list.
C15_IdentityPreserved ==
    [][last'.op = "refresh"
       => LET v == last'.view
              D == Flattened(last'.arg)
              old == children[v]
              new == children'[v]
              KeyAt(n) == <<D[n].type, D[n].custom_id>>
              Olds(n) == {m \in Dispatchables(v) : KeyOf(old[m]) = KeyAt(n)}
              LastAt(n) == CHOOSE j \in 1..Len(D) :
                               /\ KeyAt(j) = KeyAt(n)
                               /\ \A h \in 1..Len(D) : KeyAt(h) = KeyAt(n) => h <= j
          IN  /\ Len(new) = Len(D)
              /\ \A n \in 1..Len(D) :
                    IF Olds(n) # {}
                    THEN /\ \E m \in Olds(n) : new[n] = old[m]
                         /\ selected'[new[n]] = selected[new[n]]
                         /\ new[n] \in SelectIds
                            => underlying'[new[n]] = D[LastAt(n)].options
                    ELSE /\ new[n] \notin InUse
                         /\ \A m \in 1..Len(D) : m # n => new[m] # new[n]
              /\ \A m \in 1..Len(old) :
                    (\E n \in 1..Len(new) : new[n] = old[m])
                    => /\ is_dispatchable(old[m])
                       /\ \E n \in 1..Len(D) : KeyAt(n) = KeyOf(old[m])]_vars

\* refresh was given one action row of a select and a button: the view had
\* lost its Button, so its Select is kept, with the options of the
\* component, and is followed by a new Button
C15_Witness ==
    /\ last.op = "refresh"
    /\ Len(last.arg) = 1
    /\ last.arg[1].type = ActionRow
    /\ Len(children[1]) = Len(SynthKeys) + 1
    /\ children[1][1] \in SelectIds
    /\ underlying[children[1][1]] = <<"o">>
    /\ SynthButton(children[1][Len(SynthKeys) + 1])

\* C19: refresh and update_from_message leave the entries of the store, the
\* synced messages, the futures, the timers and their handles, the
\* selections, the tasks and the children of the other views as they were;
\* of the components of the Selects only those of children the view keeps
\* change.
C19_RefreshFrame ==
    [][last'.op \in {"refresh", "update_from_message"}
       => /\ views' = views
          /\ synced' = synced
          /\ stopped' = stopped
          /\ cancel_callback' = cancel_callback
          /\ timers' = timers
          /\ timeout_handler' = timeout_handler
          /\ timeout' = timeout
          /\ on_timeout_tasks' = on_timeout_tasks
          /\ selected' = selected
          /\ tasks' = tasks
          /\ \A w \in ViewIds : w # last'.view => children'[w] = children[w]
          /\ \A i \in SelectIds :
                underlying'[i] # underlying[i]
                => /\ \E n \in 1..Len(children[last'.view]) :
                          children[last'.view][n] = i
                   /\ \E n \in 1..Len(children'[last'.view]) :
                          children'[last'.view][n] = i]_vars

\* view 1, in the store with its timer and a message, was refreshed to a
\* list without its Button: the entry of the Button's key is as add_view
\* stored it
C19_Witness ==
    /\ last.op = "refresh"
    /\ last.view = 1
    /\ \A n \in 1..Len(children[1]) : children[1][n] # 1
    /\ views[KeyOf(1)].view = 1
    /\ views[KeyOf(1)].item = 1
    /\ synced # <<>>
    /\ timers # {}

\* C16: a view holds at most 25 children; the class statement of a View with
\* 26 decorated members raises; and add_item on a view of 25 children raises
\* and leaves the children as they were.
C16_AtMost25Children ==
    /\ [](\A v \in ViewIds : Len(children[v]) <= MaxItemsPerView)
    /\ []((last.op = "init_subclass" /\ last.arg[1] > MaxItemsPerView)
          => last.err = "TypeError")
    /\ [][\A v \in ViewIds :
            (/\ last'.op = "add_item"
             /\ last'.view = v
             /\ Len(children[v]) >= MaxItemsPerView)
            => (last'.err = "ValueError" /\ children' = children)]_vars

\* C17: append_option and add_option on a Select of 25 options raise and
\* leave the options as they were, so that a Select holds at most 25 options.
C17_AtMost25Options ==
    /\ [](\A i \in SelectIds : Len(underlying[i]) <= MaxOptionsPerSelect)
    /\ [][\A i \in SelectIds :
            (/\ last'.op \in {"append_option", "add_option"}
             /\ last'.arg = <<i>>
             /\ Len(underlying[i]) >= MaxOptionsPerSelect)
            => (last'.err = "ValueError" /\ underlying' = underlying)]_vars

\* item i comes before item j by their groups: i has a group, and j has
\* none or a greater one
GroupBefore(i, j) ==
    /\ group_id(i) # NoneV
    /\ group_id(j) = NoneV \/ group_id(i) < group_id(j)

\* the position of an item in a list that holds it once
IndexIn(ch, i) == CHOOSE n \in 1..Len(ch) : ch[n] = i

RECURSIVE Concat(_)
Concat(rows) == IF rows = <<>> THEN <<>> ELSE Head(rows) \o Concat(Tail(rows))

\* C18: the rows of to_components hold between one and five items, all of
\* one group; together, in their order, they hold every child once, the
\* groups ascending with the items without group last and, within a group,
\* the children in their order in the view; a row followed by a row of its
\* group is full; and twelve items without group make rows of 5, 5 and 2.
C18_LayoutChunking ==
    last.op = "to_components"
    => LET rows == last.arg
           ch == children[last.view]
           flat == Concat(rows)
       IN  /\ \A r \in 1..Len(rows) :
                 /\ Len(rows[r]) >= 1
                 /\ Len(rows[r]) <= RowSize
                 /\ \A n \in 1..Len(rows[r]) :
                       group_id(rows[r][n]) = group_id(rows[r][1])
           /\ Len(flat) = Len(ch)
           /\ \A n \in 1..Len(ch) : \E m \in 1..Len(flat) : flat[m] = ch[n]
           /\ \A p \in 1..Len(flat), q \in 1..Len(flat) :
                 p < q
                 => \/ GroupBefore(flat[p], flat[q])
                    \/ /\ group_id(flat[p]) = group_id(flat[q])
                       /\ IndexIn(ch, flat[p]) < IndexIn(ch, flat[q])
           /\ \A r \in 1..(Len(rows) - 1) :
                 group_id(rows[r][1]) = group_id(rows[r + 1][1])
                 => Len(rows[r]) = RowSize
           /\ ch = Ungrouped(RowSize + RowSize + 2)
              => rows = <<SubSeq(ch, 1, RowSize),
                          SubSeq(ch, RowSize + 1, RowSize + RowSize),
                          SubSeq(ch, RowSize + RowSize + 1, Len(ch))>>

\* to_components of a view of seven items, added with and without groups in
\* turn: a full row and a row of one item of the items without group come
\* after the row of group 1
C18_Witness ==
    /\ last.op = "to_components"
    /\ last.view = 1
    /\ Len(last.arg) = Len(Groups)
    /\ group_id(last.arg[1][1]) = 1
    /\ Len(last.arg[Len(Groups) - 1]) = RowSize
    /\ group_id(last.arg[Len(Groups)][1]) = NoneV
    /\ group_id(children[1][1]) = NoneV
\* whether item i is in the item list of view v
InList(v, i) == \E n \in 1..Len(children[v]) : children[v][n] = i

\* C21 (as claimed): every entry of the store names an item that is in the
\* item list of the entry's view, and every dispatch that creates a task
\* creates it for an item that is in the list of its view.
C21_NoStaleRouting ==
    /\ [](\A k \in Keys :
              views[k] # NoEntry => InList(views[k].view, views[k].item))
    /\ [][(last'.op = "dispatch" /\ Len(tasks') > Len(tasks))
              => InList(tasks'[Len(tasks')].view, tasks'[Len(tasks')].item)]_vars

\* C21 (amended): an entry is written by add_view alone, for an item that is
\* then in the list of the view and under the key of that item, and keeps its
\* view and item as long as it is there; remove_item, clear_items and refresh
\* leave the store as it is; a dispatch that hits a key creates its task for
\* the view and the item of the entry, in the list or not.
C21_RoutedAsRegistered ==
    /\ [][\A k \in Keys :
              views'[k] # NoEntry =>
                  \/ /\ views'[k].view = views[k].view
                     /\ views'[k].item = views[k].item
                  \/ /\ last'.op = "add_view"
                     /\ last'.view = views'[k].view
                     /\ KeyOf(views'[k].item) = k
                     /\ \E n \in 1..Len(children'[last'.view]) :
                            children'[last'.view][n] = views'[k].item]_vars
    /\ [][last'.op \in {"remove_item", "clear_items", "refresh"}
              => views' = views]_vars
    /\ [][(last'.op = "dispatch" /\ last'.view # 0) =>
              /\ Len(tasks') = Len(tasks) + 1
              /\ tasks'[Len(tasks')].view = views[last'.key].view
              /\ tasks'[Len(tasks')].item = views[last'.key].item]_vars

\* C21 witness: a dispatch has just created a task for an item that is no
\* longer in the list of its view
C21_Witness ==
    /\ last.op = "dispatch"
    /\ last.view # 0
    /\ Len(tasks) > 0
    /\ tasks[Len(tasks)].item = views[last.key].item
    /\ ~InList(tasks[Len(tasks)].view, tasks[Len(tasks)].item)

\* C22: all the entries of the store that belong to one view carry the same
\* expiry, and the sweep of dispatch and add_view never removes one entry of
\* a view and keeps another entry of that view.
C22_KeysLiveAndDieTogether ==
    /\ [](\A k1 \in Keys, k2 \in Keys :
              (/\ views[k1] # NoEntry
               /\ views[k2] # NoEntry
               /\ views[k1].view = views[k2].view)
              => views[k1].expiry = views[k2].expiry)
    /\ [][\A k1 \in Keys, k2 \in Keys :
              (/\ last'.op \in {"dispatch", "add_view"}
               /\ views[k1] # NoEntry
               /\ views[k2] # NoEntry
               /\ views[k1].view = views[k2].view
               /\ Dead(k1))
              => Dead(k2)]_vars

\* the tasks created after task n for the item of task n
LaterHits(n) == {m \in (n + 1)..Len(tasks) : tasks[m].item = tasks[n].item}

\* the step in which task n calls the handler of its item, a Select
Invokes(n) ==
    /\ n \in 1..Len(tasks)
    /\ ItemType(tasks[n].item) = Select
    /\ Len(tasks') = Len(tasks)
    /\ tasks'[n].calls = tasks[n].calls + 1

\* C23 (as claimed): when the task of an event calls the handler of its
\* item, a Select, the values of the Select are the ones written from that
\* event, whatever was dispatched to the Select since.
C23_HandlerSeesOwnEvent ==
    [][\A n \in 1..MaxEvents :
           Invokes(n) =>
               selected'[tasks[n].item] = Carried(tasks[n].interaction)]_vars

\* C23 (amended): when the task of an event calls the handler of its item,
\* a Select, the values of the Select are the ones written from the last
\* event dispatched to it so far: its own event if no dispatch hit the
\* Select since, and the latest of the later events otherwise.
C23_HandlerSeesLastEvent ==
    [][\A n \in 1..MaxEvents :
           Invokes(n) =>
               selected'[tasks[n].item] =
                   IF LaterHits(n) = {}
                   THEN Carried(tasks[n].interaction)
                   ELSE Carried(tasks[CHOOSE m \in LaterHits(n) :
                                    \A l \in LaterHits(n) : l <= m].interaction)]_vars

\* C23 witness: the first task has just called the handler of the Select,
\* its event carried values, and a later event without values has hit the
\* Select before: the handler finds the selection of the later event
C23_Witness ==
    /\ last.op = "interaction_check"
    /\ Len(tasks) > 1
    /\ tasks[1].pc = "callback"
    /\ tasks[1].calls = 1
    /\ \A m \in 2..Len(tasks) : tasks[m].pc = "check"
    /\ ItemType(tasks[1].item) = Select
    /\ tasks[1].interaction.has_values
    /\ LaterHits(1) # {}
    /\ \A m \in LaterHits(1) : ~tasks[m].interaction.has_values
    /\ selected[tasks[1].item] = <<>>

====
